---- MODULE Spec2Model ----
(***************************************************************************)
(* Model of src/cuda/utils/Memory.h: the device-memory primitives          *)
(* gpu_malloc / gpu_free and the DevicePtrWrapper<T> handle.               *)
(*                                                                         *)
(* Pointers are integers: Null is nullptr, 1..NumAddrs are addresses the   *)
(* device runtime can hand out, ExtAddr is a device address owned by code  *)
(* outside the handle.  The device heap maps every currently allocated     *)
(* address to the element count it was allocated with.                     *)
(***************************************************************************)
EXTENDS Integers, Sequences, FiniteSets, TLC

\* ------------------------------------------------------------- bounds
NumHandles == 2      \* handle objects in a run
NumAddrs == 2        \* device addresses the runtime can hand out
MaxSize == 2         \* largest element count passed to allocate
MaxOps == 4          \* operations recorded in a single-handle history

Null == 0
Handles == 1..NumHandles
DevAddrs == 1..NumAddrs
ExtAddr == NumAddrs + 1
ExtPtrs == {Null, ExtAddr}
Sizes == 0..MaxSize

\* host memory: two arrays of HostLen elements each, at addresses that are
\* no device addresses; elements are drawn from Vals
HostSrc == NumAddrs + 2
HostDst == NumAddrs + 3
HostPtrs == {HostSrc, HostDst}
HostLen == MaxSize
Vals == {0, 1}

VARIABLES
  life,    \* life[h]: "none" (not constructed, or destroyed) or "live"
  obj,     \* obj[h]: the data members of handle h
  heap,    \* device heap: allocated address -> element count
  fatal,   \* the process was terminated by checkCudaErrors
  op,      \* the last operation: [name, h, arg]
  prev,    \* the data members, before the last operation, of the handle it
           \* was called on (of the source handle, for a move)
  trace,   \* the runtime calls the last operation issued, in order
  ret,     \* the value the last operation returned
  hist,    \* SpecHist: the history of operations on the one handle;
           \* SpecPrim: the operation before the last one, when that was
           \* a copy to the device that the runtime carried out
  mem,     \* contents of memory (SpecPrim only): mem.dev[a] is the contents of
           \* the allocated device buffer a, mem.host[p] of the host array p
  pmem     \* mem before the last operation

vars == <<life, obj, heap, fatal, op, prev, trace, ret, hist, mem, pmem>>

\* --------------------------------------------------- device runtime
Call(name, ptr, size, ok) == [call |-> name, ptr |-> ptr, size |-> size, ok |-> ok]

\* cudaMalloc: fails (no memory), or returns an address that is not
\* allocated; for a zero-byte request it may also succeed with nullptr.
cudaMalloc(hp, size) ==
  {[ok |-> FALSE, ptr |-> Null, heap |-> hp]}
  \cup {[ok |-> TRUE, ptr |-> a, heap |-> (a :> size) @@ hp] : a \in DevAddrs \ DOMAIN hp}
  \cup (IF size = 0 THEN {[ok |-> TRUE, ptr |-> Null, heap |-> hp]} ELSE {})

\* cudaFree: releases an allocated address; any other pointer is rejected
\* with an error status and the heap is left alone.
cudaFree(hp, p) ==
  IF p \in DOMAIN hp
    THEN {[ok |-> TRUE, heap |-> [a \in DOMAIN hp \ {p} |-> hp[a]]]}
    ELSE {[ok |-> FALSE, heap |-> hp]}

\* ------------------------------------------------------- primitives
\* gpu_malloc(ptr, size): checkCudaErrors(cudaMalloc(&ptr, sizeof(T)*size))
gpu_malloc(ptr, size, hp) ==
  {[ptr |-> IF r.ok THEN r.ptr ELSE ptr,
    heap |-> r.heap,
    trace |-> <<Call("cudaMalloc", r.ptr, size, r.ok)>>,
    fatal |-> ~r.ok] : r \in cudaMalloc(hp, size)}

\* variant: the null test is missing
gpu_free_nocheck(ptr, hp) ==
  {[heap |-> r.heap, trace |-> <<Call("cudaFree", ptr, 0, r.ok)>>, fatal |-> FALSE]
     : r \in cudaFree(hp, ptr)}

\* gpu_free(ptr): if (ptr) cudaFree(ptr);  the status is not looked at
gpu_free(ptr, hp) ==
  IF ptr # Null
    THEN {[heap |-> r.heap, trace |-> <<Call("cudaFree", ptr, 0, r.ok)>>, fatal |-> FALSE]
            : r \in cudaFree(hp, ptr)}
    ELSE {[heap |-> hp, trace |-> <<>>, fatal |-> FALSE]}

\* cudaMemcpy(dst, src, count, kind): copies n elements when the device
\* range is inside an allocated buffer, and reports an error otherwise; a
\* copy of zero elements through a pointer that is not a live buffer may
\* also be accepted, and moves nothing.
cudaMemcpy(m, hp, dst, src, n, kind) ==
  LET dev == IF kind = "HostToDevice" THEN dst ELSE src
      hst == IF kind = "HostToDevice" THEN src ELSE dst
  IN  IF dev \in DOMAIN hp /\ n <= hp[dev] /\ hst \in HostPtrs /\ n <= HostLen
        THEN {[ok |-> TRUE,
               mem |-> IF kind = "HostToDevice"
                         THEN [m EXCEPT !.dev[dev] =
                                 [i \in 1..hp[dev] |-> IF i <= n THEN m.host[hst][i] ELSE @[i]]]
                         ELSE [m EXCEPT !.host[hst] =
                                 [i \in 1..HostLen |-> IF i <= n THEN m.dev[dev][i] ELSE @[i]]]]}
        ELSE {[ok |-> FALSE, mem |-> m]}
             \cup (IF n = 0 THEN {[ok |-> TRUE, mem |-> m]} ELSE {})

\* variant: the null test is missing
gpu_memcpy_h2d_nocheck(device, host, n, m, hp) ==
  {[mem |-> r.mem, trace |-> <<Call("cudaMemcpy", device, n, r.ok)>>, fatal |-> ~r.ok]
     : r \in cudaMemcpy(m, hp, device, host, n, "HostToDevice")}

\* variant: the count is passed in bytes of a two-byte element
gpu_memcpy_h2d_bytes(device, host, n, m, hp) ==
  IF host = Null \/ device = Null
    THEN {[mem |-> m, trace |-> <<>>, fatal |-> FALSE]}
    ELSE {[mem |-> r.mem, trace |-> <<Call("cudaMemcpy", device, n, r.ok)>>, fatal |-> ~r.ok]
            : r \in cudaMemcpy(m, hp, device, host, n \div 2, "HostToDevice")}

\* gpu_memcpy_h2d(device, host, size)
gpu_memcpy_h2d(device, host, n, m, hp) ==
  IF host = Null \/ device = Null
    THEN {[mem |-> m, trace |-> <<>>, fatal |-> FALSE]}
    ELSE {[mem |-> r.mem, trace |-> <<Call("cudaMemcpy", device, n, r.ok)>>, fatal |-> ~r.ok]
            : r \in cudaMemcpy(m, hp, device, host, n, "HostToDevice")}

\* gpu_memcpy_d2h(host, device, size)
gpu_memcpy_d2h(host, device, n, m, hp) ==
  IF host = Null \/ device = Null
    THEN {[mem |-> m, trace |-> <<>>, fatal |-> FALSE]}
    ELSE {[mem |-> r.mem, trace |-> <<Call("cudaMemcpy", device, n, r.ok)>>, fatal |-> ~r.ok]
            : r \in cudaMemcpy(m, hp, host, device, n, "DeviceToHost")}

\* ------------------------------------------------- DevicePtrWrapper
\* data members with their default member initialisers
Fresh == [d_external_ |-> Null, d_internal_ |-> Null, size_ |-> 0]

isExternal(w) == w.d_external_ # Null

size(w) == w.size_

\* variant: the internal pointer is looked at first
get_internal_first(w) == IF w.d_internal_ # Null THEN w.d_internal_ ELSE w.d_external_

get(w) == IF isExternal(w) THEN w.d_external_ ELSE w.d_internal_

\* variant: only the internal pointer is tested
toBool_internal_only(w) == w.d_internal_ # Null

toBool(w) == get(w) # Null

\* variant: setting the external pointer forgets the internal buffer
set_external_drop(w, d) == [w EXCEPT !.d_external_ = d, !.d_internal_ = Null, !.size_ = 0]

set_external(w, d) == [w EXCEPT !.d_external_ = d]

\* variant: a null pointer is not assigned
assignPtr_ignores_null(w, d) == IF d # Null THEN set_external(w, d) ELSE w

assignPtr(w, d) == set_external(w, d)

\* variant: unsetting the external pointer forgets the internal buffer
unset_external_drop(w) == [w EXCEPT !.d_external_ = Null, !.d_internal_ = Null, !.size_ = 0]

unset_external(w) == [w EXCEPT !.d_external_ = Null]

\* the defaulted move constructor / move assignment: a memberwise move of
\* two raw pointers and a size_t, i.e. a copy that leaves the source as is
defaultMove(src) == [dst |-> src, src |-> src]

\* ---- variants of allocate() with a slip in it (used to test the properties)
NoCall(hp) == {[heap |-> hp, trace |-> <<>>, fatal |-> FALSE]}

Regrow(w, n, freed) ==
  UNION {
    {[w |-> IF m.fatal THEN w ELSE [w EXCEPT !.d_internal_ = m.ptr, !.size_ = n],
      heap |-> m.heap,
      trace |-> f.trace \o m.trace,
      fatal |-> m.fatal] : m \in gpu_malloc(w.d_internal_, n, f.heap)}
    : f \in freed}

\* "size_ <= size" / "size_ > size": an equal size reallocates
allocateInternal_strict(w, n, hp) ==
  IF w.d_internal_ # Null /\ w.size_ > n
    THEN {[w |-> w, heap |-> hp, trace |-> <<>>, fatal |-> FALSE]}
    ELSE Regrow(w, n, IF w.d_internal_ # Null THEN gpu_free(w.d_internal_, hp) ELSE NoCall(hp))

\* the early return is missing: every call frees and allocates again
allocateInternal_always(w, n, hp) ==
  Regrow(w, n, IF w.d_internal_ # Null THEN gpu_free(w.d_internal_, hp) ELSE NoCall(hp))

\* the old buffer is not freed before the new one is allocated
allocateInternal_nofree(w, n, hp) ==
  IF w.d_internal_ # Null /\ w.size_ >= n
    THEN {[w |-> w, heap |-> hp, trace |-> <<>>, fatal |-> FALSE]}
    ELSE Regrow(w, n, NoCall(hp))

\* the requested size is recorded also when the buffer is reused
allocateInternal_shrink(w, n, hp) ==
  IF w.d_internal_ # Null /\ w.size_ >= n
    THEN {[w |-> [w EXCEPT !.size_ = n], heap |-> hp, trace |-> <<>>, fatal |-> FALSE]}
    ELSE Regrow(w, n, IF w.d_internal_ # Null THEN gpu_free(w.d_internal_, hp) ELSE NoCall(hp))

\* the part of allocate() that runs when no external pointer is set
allocateInternal(w, n, hp) ==
  LET doFree == w.d_internal_ # Null /\ w.size_ < n
      freed  == IF doFree THEN gpu_free(w.d_internal_, hp)
                          ELSE {[heap |-> hp, trace |-> <<>>, fatal |-> FALSE]}
  IN  IF w.d_internal_ # Null /\ w.size_ >= n
        THEN {[w |-> w, heap |-> f.heap, trace |-> f.trace, fatal |-> FALSE] : f \in freed}
        ELSE UNION {
               {[w |-> IF m.fatal THEN w
                       ELSE [w EXCEPT !.d_internal_ = m.ptr, !.size_ = n],
                 heap |-> m.heap,
                 trace |-> f.trace \o m.trace,
                 fatal |-> m.fatal] : m \in gpu_malloc(w.d_internal_, n, f.heap)}
               : f \in freed}

\* the isExternal() test is missing
allocate_ignores_external(w, n, hp) == allocateInternal(w, n, hp)

allocate(w, n, hp) ==
  IF ~isExternal(w)
    THEN allocateInternal(w, n, hp)
    ELSE {[w |-> w, heap |-> hp, trace |-> <<>>, fatal |-> FALSE]}

\* variant: the pointer get() returns is freed
destructor_frees_active(w, hp) ==
  IF get(w) # Null
    THEN gpu_free(get(w), hp)
    ELSE {[heap |-> hp, trace |-> <<>>, fatal |-> FALSE]}

\* ~DevicePtrWrapper
destructor(w, hp) ==
  IF w.d_internal_ # Null
    THEN gpu_free(w.d_internal_, hp)
    ELSE {[heap |-> hp, trace |-> <<>>, fatal |-> FALSE]}

\* the positions of the cudaMalloc / cudaFree calls in a sequence of calls
Mallocs(tr) == {i \in 1..Len(tr) : tr[i].call = "cudaMalloc"}
Frees(tr) == {i \in 1..Len(tr) : tr[i].call = "cudaFree"}

\* ------------------------------------------------------- operations
Note(name, h, arg, pre, tr, r) ==
  /\ op' = [name |-> name, h |-> h, arg |-> arg]
  /\ prev' = pre
  /\ trace' = tr
  /\ ret' = r

DoConstruct(h) ==
  /\ ~fatal /\ life[h] = "none"
  /\ life' = [life EXCEPT ![h] = "live"]
  /\ obj' = [obj EXCEPT ![h] = Fresh]
  /\ UNCHANGED <<heap, fatal>>
  /\ Note("construct", h, 0, Fresh, <<>>, Null)

DoMoveConstruct(h, s) ==
  /\ ~fatal /\ life[h] = "none" /\ life[s] = "live"
  /\ life' = [life EXCEPT ![h] = "live"]
  /\ LET m == defaultMove(obj[s]) IN obj' = [obj EXCEPT ![s] = m.src, ![h] = m.dst]
  /\ UNCHANGED <<heap, fatal>>
  /\ Note("move_construct", h, s, obj[s], <<>>, Null)

DoMoveAssign(h, s) ==
  /\ ~fatal /\ life[h] = "live" /\ life[s] = "live"
  /\ LET m == defaultMove(obj[s]) IN obj' = [obj EXCEPT ![s] = m.src, ![h] = m.dst]
  /\ UNCHANGED <<life, heap, fatal>>
  /\ Note("move_assign", h, s, obj[s], <<>>, Null)

DoAllocate(h, n) ==
  /\ ~fatal /\ life[h] = "live"
  /\ \E r \in allocate(obj[h], n, heap) :
       /\ obj' = [obj EXCEPT ![h] = r.w]
       /\ heap' = r.heap
       /\ fatal' = r.fatal
       /\ Note("allocate", h, n, obj[h], r.trace, Null)
  /\ UNCHANGED life

DoSetExternal(h, d) ==
  /\ ~fatal /\ life[h] = "live"
  /\ obj' = [obj EXCEPT ![h] = set_external(obj[h], d)]
  /\ UNCHANGED <<life, heap, fatal>>
  /\ Note("set_external", h, d, obj[h], <<>>, Null)

DoAssignPtr(h, d) ==
  /\ ~fatal /\ life[h] = "live"
  /\ obj' = [obj EXCEPT ![h] = assignPtr(obj[h], d)]
  /\ UNCHANGED <<life, heap, fatal>>
  /\ Note("assign_ptr", h, d, obj[h], <<>>, Null)

DoUnsetExternal(h) ==
  /\ ~fatal /\ life[h] = "live"
  /\ obj' = [obj EXCEPT ![h] = unset_external(obj[h])]
  /\ UNCHANGED <<life, heap, fatal>>
  /\ Note("unset_external", h, 0, obj[h], <<>>, Null)

DoGet(h) ==
  /\ ~fatal /\ life[h] = "live"
  /\ UNCHANGED <<life, obj, heap, fatal>>
  /\ Note("get", h, 0, obj[h], <<>>, get(obj[h]))

DoSize(h) ==
  /\ ~fatal /\ life[h] = "live"
  /\ UNCHANGED <<life, obj, heap, fatal>>
  /\ Note("size", h, 0, obj[h], <<>>, size(obj[h]))

DoIsExternal(h) ==
  /\ ~fatal /\ life[h] = "live"
  /\ UNCHANGED <<life, obj, heap, fatal>>
  /\ Note("isExternal", h, 0, obj[h], <<>>, isExternal(obj[h]))

DoBool(h) ==
  /\ ~fatal /\ life[h] = "live"
  /\ UNCHANGED <<life, obj, heap, fatal>>
  /\ Note("bool", h, 0, obj[h], <<>>, toBool(obj[h]))

DoDestroy(h) ==
  /\ ~fatal /\ life[h] = "live"
  /\ \E r \in destructor(obj[h], heap) :
       /\ heap' = r.heap
       /\ Note("destroy", h, 0, obj[h], r.trace, Null)
  /\ life' = [life EXCEPT ![h] = "none"]
  /\ obj' = [obj EXCEPT ![h] = Fresh]
  /\ UNCHANGED fatal

\* memory with no device buffer and zeroed host arrays
NoMem == [dev |-> <<>>, host |-> [p \in HostPtrs |-> [i \in 1..HostLen |-> 0]]]

\* ------------------------------------------- Spec: any number of handles
Init ==
  /\ life = [h \in Handles |-> "none"]
  /\ obj = [h \in Handles |-> Fresh]
  /\ heap = <<>>
  /\ fatal = FALSE
  /\ op = [name |-> "init", h |-> 0, arg |-> 0]
  /\ prev = Fresh
  /\ trace = <<>>
  /\ ret = Null
  /\ hist = <<>>
  /\ mem = NoMem
  /\ pmem = NoMem

Construct == \E h \in Handles : DoConstruct(h) /\ UNCHANGED <<hist, mem, pmem>>
MoveConstruct == \E h, s \in Handles : DoMoveConstruct(h, s) /\ UNCHANGED <<hist, mem, pmem>>
MoveAssign == \E h, s \in Handles : DoMoveAssign(h, s) /\ UNCHANGED <<hist, mem, pmem>>
Allocate == \E h \in Handles, n \in Sizes : DoAllocate(h, n) /\ UNCHANGED <<hist, mem, pmem>>
SetExternal == \E h \in Handles, d \in ExtPtrs : DoSetExternal(h, d) /\ UNCHANGED <<hist, mem, pmem>>
AssignPtr == \E h \in Handles, d \in ExtPtrs : DoAssignPtr(h, d) /\ UNCHANGED <<hist, mem, pmem>>
UnsetExternal == \E h \in Handles : DoUnsetExternal(h) /\ UNCHANGED <<hist, mem, pmem>>
Get == \E h \in Handles : DoGet(h) /\ UNCHANGED <<hist, mem, pmem>>
Size == \E h \in Handles : DoSize(h) /\ UNCHANGED <<hist, mem, pmem>>
IsExternal == \E h \in Handles : DoIsExternal(h) /\ UNCHANGED <<hist, mem, pmem>>
Bool == \E h \in Handles : DoBool(h) /\ UNCHANGED <<hist, mem, pmem>>
Destroy == \E h \in Handles : DoDestroy(h) /\ UNCHANGED <<hist, mem, pmem>>

Next ==
  \/ Construct \/ MoveConstruct \/ MoveAssign \/ Allocate
  \/ SetExternal \/ AssignPtr \/ UnsetExternal
  \/ Get \/ Size \/ IsExternal \/ Bool \/ Destroy

Spec == Init /\ [][Next]_vars

\* ------------------------ SpecHist: one handle, its whole history kept
\* hist[i] is the i-th operation on handle 1 since its construction: its
\* name and argument, the runtime calls it issued, the value it returned
\* and the data members after it.
Log ==
  /\ hist' = Append(hist, [name |-> op'.name, arg |-> op'.arg, calls |-> trace',
                        ret |-> ret', post |-> obj'[1], fatal |-> fatal'])
  /\ UNCHANGED <<mem, pmem>>

InitHist ==
  /\ life = [h \in Handles |-> IF h = 1 THEN "live" ELSE "none"]
  /\ obj = [h \in Handles |-> Fresh]
  /\ heap = <<>>
  /\ fatal = FALSE
  /\ op = [name |-> "construct", h |-> 1, arg |-> 0]
  /\ prev = Fresh
  /\ trace = <<>>
  /\ ret = Null
  /\ hist = <<>>
  /\ mem = NoMem
  /\ pmem = NoMem

HAllocate == \E n \in Sizes : Len(hist) < MaxOps /\ DoAllocate(1, n) /\ Log
HSetExternal == \E d \in ExtPtrs : Len(hist) < MaxOps /\ DoSetExternal(1, d) /\ Log
HUnsetExternal == Len(hist) < MaxOps /\ DoUnsetExternal(1) /\ Log
HGet == Len(hist) < MaxOps /\ DoGet(1) /\ Log
HAssignPtr == \E d \in ExtPtrs : Len(hist) < MaxOps /\ DoAssignPtr(1, d) /\ Log
HSize == Len(hist) < MaxOps /\ DoSize(1) /\ Log
HIsExternal == Len(hist) < MaxOps /\ DoIsExternal(1) /\ Log
HBool == Len(hist) < MaxOps /\ DoBool(1) /\ Log
HDestroy == Len(hist) < MaxOps /\ DoDestroy(1) /\ Log

NextHist ==
  \/ HAllocate \/ HSetExternal \/ HAssignPtr \/ HUnsetExternal
  \/ HGet \/ HSize \/ HIsExternal \/ HBool \/ HDestroy

SpecHist == InitHist /\ [][NextHist]_vars

\* the data members of handle 1 before the i-th recorded operation
Before(i) == IF i = 1 THEN Fresh ELSE hist[i - 1].post

\* ---------- SpecPrim: one handle and the primitives called on its pointer
\* The device memory after an operation that issued the runtime calls tr
\* and left the heap hp: a buffer allocated by the operation holds
\* arbitrary (uninitialised) elements, a freed one is gone, the others keep
\* their contents.
DevAfter(m, tr, hp) ==
  LET new == {tr[i].ptr : i \in {j \in Mallocs(tr) : tr[j].ok}} \cap DOMAIN hp
      k   == IF new = {} THEN 0 ELSE hp[CHOOSE a \in new : TRUE]
  IN  {[a \in DOMAIN hp |-> IF a \in new THEN c ELSE m.dev[a]] : c \in [1..k -> Vals]}

InitPrim ==
  /\ life = [h \in Handles |-> IF h = 1 THEN "live" ELSE "none"]
  /\ obj = [h \in Handles |-> Fresh]
  /\ heap = <<>>
  /\ fatal = FALSE
  /\ op = [name |-> "construct", h |-> 1, arg |-> 0]
  /\ prev = Fresh
  /\ trace = <<>>
  /\ ret = Null
  /\ hist = <<>>
  /\ mem \in {[NoMem EXCEPT !.host[HostSrc] = s] : s \in [1..HostLen -> Vals]}
  /\ pmem = mem

\* the last operation, kept when it is a copy to the device that succeeded
LastUpload ==
  IF op.name = "gpu_memcpy_h2d" /\ trace # <<>> /\ ~fatal THEN <<op>> ELSE <<>>

\* handle 1 allocates
PAllocate ==
  \E n \in Sizes :
    /\ DoAllocate(1, n)
    /\ \E d \in DevAfter(mem, trace', heap') : mem' = [mem EXCEPT !.dev = d]
    /\ pmem' = mem
    /\ hist' = LastUpload

\* a caller passes a null pointer or the handle's internal pointer to gpu_free
PFree ==
  \E p \in {Null, obj[1].d_internal_} :
    /\ ~fatal
    /\ \E r \in gpu_free(p, heap) :
         /\ heap' = r.heap
         /\ fatal' = r.fatal
         /\ mem' = [mem EXCEPT !.dev = [a \in DOMAIN r.heap |-> mem.dev[a]]]
         /\ trace' = r.trace
    /\ op' = [name |-> "gpu_free", h |-> 0, arg |-> p]
    /\ pmem' = mem
    /\ hist' = LastUpload
    /\ UNCHANGED <<life, obj, prev, ret>>

\* a caller copies n elements of a host array to the pointer get() returns
PCopyH2D ==
  \E host \in {Null, HostSrc}, n \in Sizes :
    /\ ~fatal /\ life[1] = "live"
    /\ \E r \in gpu_memcpy_h2d(get(obj[1]), host, n, mem, heap) :
         /\ mem' = r.mem
         /\ fatal' = r.fatal
         /\ trace' = r.trace
    /\ op' = [name |-> "gpu_memcpy_h2d", h |-> 1, arg |-> n,
              device |-> get(obj[1]), host |-> host]
    /\ pmem' = mem
    /\ hist' = LastUpload
    /\ UNCHANGED <<life, obj, heap, prev, ret>>

\* a caller copies n elements from the pointer get() returns to a host array
PCopyD2H ==
  \E host \in {Null, HostDst}, n \in Sizes :
    /\ ~fatal /\ life[1] = "live"
    /\ \E r \in gpu_memcpy_d2h(host, get(obj[1]), n, mem, heap) :
         /\ mem' = r.mem
         /\ fatal' = r.fatal
         /\ trace' = r.trace
    /\ op' = [name |-> "gpu_memcpy_d2h", h |-> 1, arg |-> n,
              device |-> get(obj[1]), host |-> host]
    /\ pmem' = mem
    /\ hist' = LastUpload
    /\ UNCHANGED <<life, obj, heap, prev, ret>>

NextPrim == PAllocate \/ PFree \/ PCopyH2D \/ PCopyD2H

SpecPrim == InitPrim /\ [][NextPrim]_vars

\* ------------------------------------------------------------ helpers
IsMove == op.name \in {"move_construct", "move_assign"}
Cur == obj[op.h]

\* ================================================================ C1
\* C1: after a move of a handle A that owns an internal buffer into a
\* handle B, B holds A's former internal buffer, capacity and external
\* reference and A holds no internal buffer; and no pointer is ever passed
\* to the runtime free a second time (every cudaFree is given a buffer
\* that is still allocated).
C1_MoveTransfersOwnership ==
  /\ (IsMove /\ op.h # op.arg /\ prev.d_internal_ # Null)
       => /\ obj[op.h] = prev
          /\ obj[op.arg].d_internal_ = Null
  /\ \A i \in Frees(trace) : trace[i].ok

\* ================================================================ C2
\* C2: no two live handles hold the same non-null internal buffer
\* reference.
C2_SingleOwner ==
  \A h1, h2 \in Handles :
    (h1 # h2 /\ life[h1] = "live" /\ life[h2] = "live" /\ obj[h1].d_internal_ # Null)
      => obj[h1].d_internal_ # obj[h2].d_internal_

\* ================================================================ C3
\* C3: allocate(n) on a handle whose external reference is non-null issues
\* no runtime call, leaves the internal buffer reference and the recorded
\* capacity unchanged, and get() afterwards returns the external reference.
C3_AllocateExternalNoOp ==
  (op.name = "allocate" /\ prev.d_external_ # Null)
    => /\ trace = <<>>
       /\ ~fatal
       /\ Cur.d_internal_ = prev.d_internal_
       /\ Cur.size_ = prev.size_
       /\ get(Cur) = prev.d_external_

C3_Witness ==
  /\ op.name = "allocate" /\ prev.d_external_ # Null
  /\ prev.d_internal_ # Null /\ op.arg > prev.size_
  /\ get(Cur) = ExtAddr

\* ================================================================ C5
\* C5: with no external reference, an internal buffer and recorded
\* capacity >= n, allocate(n) issues no runtime call and leaves the
\* internal buffer reference and the capacity as they were.
C5_AllocateReuseNoOp ==
  (op.name = "allocate" /\ prev.d_external_ = Null
     /\ prev.d_internal_ # Null /\ prev.size_ >= op.arg)
    => /\ trace = <<>>
       /\ ~fatal
       /\ Cur.d_internal_ = prev.d_internal_
       /\ Cur.size_ = prev.size_

C5_Witness ==
  /\ op.name = "allocate" /\ prev.d_external_ = Null
  /\ prev.d_internal_ # Null /\ prev.size_ = op.arg /\ op.arg > 0
  /\ trace = <<>>

\* ================================================================ C6
\* C6: with no external reference and no internal buffer, or one whose
\* capacity is < n, allocate(n) frees the old buffer (if any) exactly once,
\* then issues the runtime allocation for n elements; when that succeeds
\* the handle holds the returned buffer with capacity n, and the old
\* buffer is no longer allocated (unless its address was handed out again
\* as the new buffer).
C6_AllocateGrow ==
  (op.name = "allocate" /\ prev.d_external_ = Null
     /\ (prev.d_internal_ = Null \/ prev.size_ < op.arg))
    => LET old == prev.d_internal_
           k   == Len(trace)
       IN  /\ k = (IF old # Null THEN 2 ELSE 1)
           /\ old # Null => (trace[1].call = "cudaFree" /\ trace[1].ptr = old)
           /\ trace[k].call = "cudaMalloc" /\ trace[k].size = op.arg
           /\ fatal = ~trace[k].ok
           /\ ~fatal =>
                /\ Cur.d_internal_ = trace[k].ptr
                /\ Cur.size_ = op.arg
                /\ Cur.d_internal_ # Null =>
                     (Cur.d_internal_ \in DOMAIN heap /\ heap[Cur.d_internal_] = op.arg)
                /\ (old # Null /\ old \in DOMAIN heap) => old = Cur.d_internal_

C6_Witness ==
  /\ op.name = "allocate" /\ prev.d_external_ = Null
  /\ prev.d_internal_ # Null /\ prev.size_ < op.arg /\ ~fatal
  /\ Len(trace) = 2 /\ Cur.d_internal_ # prev.d_internal_
  /\ Cur.size_ = op.arg

\* ================================================================ C7
\* C7 (as claimed): a runtime allocation is issued only by allocate(n), and
\* only when no external reference is set and n is strictly greater than
\* the recorded capacity.
C7_Original ==
  Mallocs(trace) # {}
    => /\ op.name = "allocate"
       /\ prev.d_external_ = Null
       /\ op.arg > prev.size_

\* C7 (amended): a runtime allocation is issued only by allocate(n), and
\* only when no external reference is set and either the handle holds no
\* internal buffer or n is strictly greater than the recorded capacity.
C7_AllocationOnlyWhenNeeded ==
  Mallocs(trace) # {}
    => /\ op.name = "allocate"
       /\ prev.d_external_ = Null
       /\ (prev.d_internal_ = Null \/ op.arg > prev.size_)

C7_Witness ==
  /\ op.name = "allocate" /\ Mallocs(trace) # {}
  /\ prev.d_internal_ = Null /\ op.arg = prev.size_

\* ================================================================ C8
\* C8: the recorded capacity never decreases under allocate, set_external,
\* unset_external and the accessors, and it is 0 as long as no allocate
\* has been called on the handle.
C8_CapacityMonotone ==
  /\ op.name \in {"allocate", "set_external", "assign_ptr", "unset_external",
                  "get", "size", "isExternal", "bool"}
       => size(Cur) >= size(prev)
  /\ op.name = "size" => ret = prev.size_
  /\ (\A i \in 1..Len(hist) : hist[i].name # "allocate") => size(obj[1]) = 0

C8_Witness ==
  /\ op.name = "allocate" /\ prev.d_internal_ # Null /\ prev.size_ > 0
  /\ op.arg < prev.size_ /\ size(Cur) = prev.size_
  /\ Len(hist) >= 2

\* ================================================================ C9
\* C9: get() returns the external reference when it is non-null and the
\* internal buffer reference otherwise; it changes no data member and
\* issues no runtime call.
C9_GetPrefersExternal ==
  op.name = "get"
    => /\ ret = (IF prev.d_external_ # Null THEN prev.d_external_ ELSE prev.d_internal_)
       /\ Cur = prev
       /\ trace = <<>>
       /\ ~fatal

C9_Witness ==
  /\ op.name = "get" /\ prev.d_external_ # Null /\ prev.d_internal_ # Null
  /\ ret = prev.d_external_

\* ================================================================ C4
TwoAllocates ==
  /\ Len(hist) = 2 /\ ~fatal
  /\ hist[1].name = "allocate" /\ hist[2].name = "allocate"

\* C4 (as claimed): on a fresh handle, allocate(n1) then allocate(n2) with
\* n1 <= n2 issues exactly one runtime allocation, sized n2; allocate(n2)
\* then allocate(n1) issues no second runtime allocation.
C4_Original ==
  TwoAllocates =>
    LET a == hist[1].arg
        b == hist[2].arg
        all == hist[1].calls \o hist[2].calls
    IN  /\ a <= b => /\ Cardinality(Mallocs(all)) = 1
                     /\ \A i \in Mallocs(all) : all[i].size = b
        /\ a >= b => Mallocs(hist[2].calls) = {}

\* C4 (amended): on a fresh handle the first allocate(a) issues one runtime
\* allocation sized a.  A following allocate(b) with a <= b issues nothing
\* when a = b and a buffer is held, and otherwise frees the first buffer
\* (if one is held) and then issues a second runtime allocation sized b;
\* the handle ends with the last allocated buffer and capacity b.  A
\* following allocate(b) with a >= b issues no runtime call provided the
\* first allocation returned a buffer.
C4_GrowthOnly ==
  TwoAllocates =>
    LET a  == hist[1].arg
        b  == hist[2].arg
        p1 == hist[1].post.d_internal_
        c1 == hist[1].calls
        c2 == hist[2].calls
    IN  /\ Len(c1) = 1 /\ c1[1] = Call("cudaMalloc", p1, a, TRUE)
        /\ (a <= b /\ ~(a = b /\ p1 # Null)) =>
             /\ Len(c2) = (IF p1 # Null THEN 2 ELSE 1)
             /\ p1 # Null => c2[1] = Call("cudaFree", p1, 0, TRUE)
             /\ c2[Len(c2)] = Call("cudaMalloc", obj[1].d_internal_, b, TRUE)
        /\ (a >= b /\ p1 # Null) => (c2 = <<>> /\ obj[1] = hist[1].post)
        /\ a <= b => obj[1].size_ = b
        /\ DOMAIN heap = {obj[1].d_internal_} \ {Null}

C4_Witness ==
  /\ TwoAllocates
  /\ 0 < hist[1].arg /\ hist[1].arg < hist[2].arg
  /\ Cardinality(Mallocs(hist[1].calls \o hist[2].calls)) = 2

\* =============================================================== C10
\* C10: when a handle holds internal buffer b with capacity c, a
\* set_external(r), r non-null, followed by any number of allocate calls
\* and then unset_external() makes get() return b again with capacity c;
\* set_external and unset_external never change the internal buffer
\* reference or the capacity and issue no runtime call.
ExternalRoundTrip(i, j) ==
  /\ hist[i].name = "set_external" /\ hist[i].arg # Null
  /\ Before(i).d_internal_ # Null
  /\ hist[j].name = "unset_external"
  /\ \A k \in (i + 1)..(j - 1) : hist[k].name = "allocate"

C10_SetUnsetRestoresInternal ==
  /\ \A i \in 1..Len(hist) : \A j \in (i + 1)..Len(hist) :
       ExternalRoundTrip(i, j)
         => /\ get(hist[j].post) = Before(i).d_internal_
            /\ size(hist[j].post) = Before(i).size_
            /\ \A k \in i..j : hist[k].calls = <<>>
  /\ \A i \in 1..Len(hist) :
       hist[i].name \in {"set_external", "unset_external"}
         => /\ hist[i].post.d_internal_ = Before(i).d_internal_
            /\ hist[i].post.size_ = Before(i).size_
            /\ hist[i].calls = <<>>
            /\ ~hist[i].fatal

C10_Witness ==
  /\ Len(hist) = 4 /\ ExternalRoundTrip(2, 4)
  /\ hist[3].name = "allocate" /\ hist[3].arg > Before(2).size_
  /\ get(obj[1]) = Before(2).d_internal_ /\ get(hist[3].post) = ExtAddr

\* =============================================================== C11
\* C11: set_external(nullptr), assignment of a null raw pointer and
\* unset_external() all end in the same handle state, the one before with
\* the external reference cleared: isExternal() is false, get() returns the
\* internal buffer reference, and a following allocate(n) issues runtime
\* calls exactly when the internal buffer is missing or smaller than n.
Clears(name, arg) ==
  \/ name = "unset_external"
  \/ name \in {"set_external", "assign_ptr"} /\ arg = Null

C11_NullExternalIsUnset ==
  /\ Clears(op.name, op.arg)
       => /\ Cur = [d_external_ |-> Null, d_internal_ |-> prev.d_internal_,
                    size_ |-> prev.size_]
          /\ trace = <<>> /\ ~fatal
  /\ \A i \in 1..Len(hist) :
       Clears(hist[i].name, hist[i].arg)
         => /\ hist[i].post.d_external_ = Null
            /\ i < Len(hist) =>
                 /\ hist[i + 1].name = "isExternal" => hist[i + 1].ret = FALSE
                 /\ hist[i + 1].name = "get" => hist[i + 1].ret = Before(i).d_internal_
                 /\ hist[i + 1].name = "allocate" =>
                      (hist[i + 1].calls = <<>>
                         <=> (Before(i).d_internal_ # Null
                                /\ Before(i).size_ >= hist[i + 1].arg))

C11_Witness ==
  /\ Len(hist) = 4
  /\ hist[1].name = "allocate" /\ hist[1].post.d_internal_ # Null
  /\ hist[2].name = "set_external" /\ hist[2].arg = ExtAddr
  /\ hist[3].name = "assign_ptr" /\ hist[3].arg = Null
  /\ hist[4].name = "allocate" /\ hist[4].arg > hist[1].arg /\ ~fatal
  /\ Len(hist[4].calls) = 2

\* =============================================================== C12
\* C12: every pointer a handle passes to the runtime free is its internal
\* buffer reference and never the reference it received through
\* set_external; destruction issues exactly one runtime free, for the
\* internal buffer, when the handle has one, and none otherwise.
HandleOp ==
  op.name \in {"allocate", "set_external", "assign_ptr", "unset_external",
               "get", "size", "isExternal", "bool", "destroy"}

C12_ExternalNeverFreed ==
  /\ HandleOp =>
       \A i \in Frees(trace) :
         /\ trace[i].ptr = prev.d_internal_
         /\ trace[i].ptr # prev.d_external_
         /\ trace[i].ptr # ExtAddr
  /\ op.name = "destroy" =>
       IF prev.d_internal_ # Null
         THEN /\ Len(trace) = 1
              /\ trace[1].call = "cudaFree"
              /\ trace[1].ptr = prev.d_internal_
         ELSE trace = <<>>

C12_Witness ==
  /\ op.name = "destroy"
  /\ prev.d_external_ = ExtAddr /\ prev.d_internal_ # Null
  /\ Len(trace) = 1 /\ heap = <<>>

\* =============================================================== C13
\* C13: whenever the runtime reports a status other than success for an
\* allocation, a free or a copy issued by a primitive, the process is in the
\* fatal state when the primitive is over.
C13_RuntimeFailureIsFatal ==
  \A i \in 1..Len(trace) : ~trace[i].ok => fatal

\* =============================================================== C14
\* C14: a copy primitive, in either direction and for every element count,
\* called with a null host pointer or a null device pointer issues no
\* runtime copy, does not reach the fatal state and leaves all memory,
\* device and host, as it was.
IsCopy == op.name \in {"gpu_memcpy_h2d", "gpu_memcpy_d2h"}

C14_NullCopyNoOp ==
  (IsCopy /\ (op.host = Null \/ op.device = Null))
     => /\ trace = <<>>
        /\ ~fatal
        /\ mem = pmem

C14_Witness ==
  /\ op.name = "gpu_memcpy_h2d"
  /\ op.host = Null /\ op.device \in DOMAIN heap /\ op.arg = MaxSize
  /\ heap[op.device] = MaxSize
  /\ \E i \in 1..MaxSize : mem.dev[op.device][i] # 0

\* =============================================================== C15
\* C15: for a handle whose get() is a live device buffer of at least n
\* elements, gpu_memcpy_h2d(get(), src, n) followed by
\* gpu_memcpy_d2h(dst, get(), n), both accepted by the runtime, leaves the
\* first n elements of dst equal to those of src.
RoundTrip ==
  /\ op.name = "gpu_memcpy_d2h" /\ trace # <<>> /\ ~fatal
  /\ op.host = HostDst
  /\ hist # <<>>
  /\ hist[1].name = "gpu_memcpy_h2d" /\ hist[1].host = HostSrc
  /\ hist[1].device = op.device /\ hist[1].arg = op.arg

C15_CopyRoundTrip ==
  RoundTrip => \A i \in 1..op.arg : mem.host[HostDst][i] = mem.host[HostSrc][i]

C15_Witness ==
  /\ RoundTrip
  /\ op.arg = MaxSize /\ op.device = obj[1].d_internal_
  /\ \E i \in 1..MaxSize : mem.host[HostDst][i] = 1
  /\ \E i \in 1..MaxSize : mem.host[HostDst][i] = 0

\* =============================================================== C16
\* C16: gpu_free of a null pointer issues no runtime free, cannot reach the
\* fatal state and changes nothing; gpu_free of a non-null pointer issues
\* exactly one runtime free, for that pointer.
C16_FreeNull ==
  op.name = "gpu_free" =>
    IF op.arg = Null
      THEN trace = <<>> /\ ~fatal /\ mem = pmem
      ELSE /\ Len(trace) = 1
           /\ trace[1].call = "cudaFree"
           /\ trace[1].ptr = op.arg

C16_Witness ==
  /\ op.name = "gpu_free" /\ op.arg = Null
  /\ heap # <<>> /\ trace = <<>>

\* =============================================================== C17
\* C17: a default-constructed handle on which neither allocate nor
\* set_external (nor the pointer assignment that calls it) has been called
\* has no internal buffer, no external reference and capacity 0; its get()
\* returns null, its boolean conversion and isExternal() are false and its
\* destruction issues no runtime free.  In every state the boolean
\* conversion is true iff the external reference, or failing that the
\* internal one, is non-null.
Untouched ==
  \A i \in 1..Len(hist) : hist[i].name \notin {"allocate", "set_external", "assign_ptr"}

C17_EmptyHandle ==
  /\ Untouched =>
       /\ obj[1] = [d_external_ |-> Null, d_internal_ |-> Null, size_ |-> 0]
       /\ op.name = "get" => ret = Null
       /\ op.name = "size" => ret = 0
       /\ op.name = "bool" => ret = FALSE
       /\ op.name = "isExternal" => ret = FALSE
       /\ op.name = "destroy" => trace = <<>>
       /\ heap = <<>>
  /\ op.name = "bool" =>
       ret = (IF prev.d_external_ # Null THEN TRUE ELSE prev.d_internal_ # Null)
  /\ op.name = "isExternal" => ret = (prev.d_external_ # Null)

C17_Witness ==
  /\ Untouched /\ Len(hist) = 3
  /\ hist[1].name = "bool" /\ hist[1].ret = FALSE
  /\ hist[2].name = "get" /\ hist[2].ret = Null
  /\ hist[3].name = "destroy" /\ trace = <<>>

\* =============================================================== C18
\* C18: allocate(0) never frees anything; it issues either no runtime call
\* or a single runtime allocation of zero elements, and terminates the
\* process only when that allocation fails; it does not decrease the
\* capacity, and it is a no-op leaving get() as it was when an internal
\* buffer or an external reference is present.  A following allocate(n),
\* n > 0, that succeeds leaves the handle with capacity n.
C18_AllocateZero ==
  /\ (op.name = "allocate" /\ op.arg = 0) =>
       /\ Frees(trace) = {}
       /\ \/ trace = <<>> /\ ~fatal
          \/ /\ Len(trace) = 1
             /\ trace[1].call = "cudaMalloc" /\ trace[1].size = 0
             /\ fatal = ~trace[1].ok
       /\ size(Cur) >= size(prev)
       /\ (prev.d_internal_ # Null \/ prev.d_external_ # Null) =>
            (trace = <<>> /\ Cur = prev)
       /\ ~fatal => (Cur.size_ = prev.size_ /\ Cur.d_external_ = prev.d_external_)
  /\ \A i \in 1..(Len(hist) - 1) :
       (/\ hist[i].name = "allocate" /\ hist[i].arg = 0
        /\ hist[i + 1].name = "allocate" /\ hist[i + 1].arg > 0
        /\ hist[i].post.d_external_ = Null /\ ~hist[i + 1].fatal)
         => /\ hist[i + 1].post.size_ >= hist[i + 1].arg
            /\ hist[i + 1].post.d_internal_ # Null
            /\ \A k \in Frees(hist[i + 1].calls) :
                 hist[i + 1].calls[k].ptr = hist[i].post.d_internal_

C18_Witness ==
  /\ Len(hist) = 3 /\ ~fatal
  /\ hist[1].name = "allocate" /\ hist[1].arg = 0 /\ hist[1].post.d_internal_ # Null
  /\ hist[2].name = "allocate" /\ hist[2].arg = 0 /\ hist[2].calls = <<>>
  /\ hist[3].name = "allocate" /\ hist[3].arg > 0 /\ Len(hist[3].calls) = 2

\* =============================================================== C19
\* C19: no device buffer is leaked.  While the runtime has not failed,
\* every buffer the runtime holds allocated is the internal buffer of some
\* live handle, so that once every handle is destroyed nothing is left
\* allocated; in particular a move assignment onto a handle that owns a
\* buffer does not leave that buffer allocated and unreachable.
C19_NoLeak ==
  ~fatal =>
    \A a \in DOMAIN heap :
      \E h \in Handles : life[h] = "live" /\ obj[h].d_internal_ = a

\* =============================================================== C20
\* C20: between operations the internal pointer of every live handle is
\* null, with capacity 0, or is a buffer that is allocated and not yet
\* freed, with capacity equal to the element count it was allocated with.
C20_InternalIsLive ==
  ~fatal =>
    \A h \in Handles :
      life[h] = "live" =>
        \/ obj[h].d_internal_ = Null /\ obj[h].size_ = 0
        \/ /\ obj[h].d_internal_ \in DOMAIN heap
           /\ heap[obj[h].d_internal_] = obj[h].size_

TypeOK ==
  /\ life \in [Handles -> {"none", "live"}]
  /\ \A h \in Handles :
       /\ obj[h].d_external_ \in ExtPtrs
       /\ obj[h].d_internal_ \in {Null} \cup DevAddrs
       /\ obj[h].size_ \in Sizes
  /\ DOMAIN heap \subseteq DevAddrs
  /\ fatal \in BOOLEAN
====
